---------------------------- MODULE Spec2Model ----------------------------
(***************************************************************************)
(* A model of the DEARS genetic-algorithm building blocks:                 *)
(*   crossover::one_point            (src/src/crossover.rs)                *)
(*   TournamentSelection::select     (src/src/selection.rs)                *)
(*   SelectMany::select_n            (src/src/selection.rs)                *)
(*   Shuffle::mutate, FlipBit::mutate (src/src/mutation.rs)                *)
(*   Population::mutate_with_chance, Population::select                    *)
(*                                   (src/src/population.rs)               *)
(* Rust indices are 0-based; a genome is a TLA+ sequence, so the element   *)
(* at Rust index i is s[i + 1].  Every random draw is an existentially     *)
(* quantified input.  A panic ends the call and is recorded in the         *)
(* operation's outcome variable.                                           *)
(***************************************************************************)
EXTENDS Integers, Sequences, FiniteSets

VARIABLES
    \* crossover::one_point
    ind1, ind2,         \* the two individuals, modified in place
    orig1, orig2,       \* history: the individuals as first constructed
    cx_pre,             \* history: <<ind1, ind2>> at entry of the last call
    cx_point,           \* <<>> or <<crossover_point>> drawn by the last call
    cx_outcome          \* "none" | "ok" | "panic_too_short" | "panic_empty_range"

VARIABLES
    \* TournamentSelection::select and SelectMany::select_n
    fitnesses,          \* the fitness vector handed to the selector
    tournament_size,    \* TournamentSelection.tournament_size
    sel_drawn,          \* history: the indices the last select drew, in order
    sel_result,         \* <<>> or <<index>> returned by the last select
    sel_outcome,        \* "none" | "ok" | "panic_empty" | "panic_nan" |
                        \* "panic_size0" | "panic_empty_range"
    seln_n,             \* the n of the select_n call in progress
    seln_selected,      \* the vector `selected` built by select_n
    seln_outcome        \* "none" | "running" | "ok" | a panic of select

VARIABLES
    \* Shuffle::mutate
    sh_genome,          \* the genome, modified in place
    sh_indpb,           \* Shuffle.indpb, in units of 1/Resolution
    sh_build,           \* "debug" (overflow checks on) | "release" (wrapping)
    sh_pre,             \* history: the genome at entry of the last call
    sh_idx,             \* the loop variable idx
    sh_event,           \* the last iteration: <<>> no swap event, <<idx>> the
                        \* event fired and no partner was computed,
                        \* <<idx, swap_idx>> the partner computed
    sh_outcome          \* "none" | "running" | "ok" | "panic_overflow" |
                        \* "panic_empty_range" | "panic_out_of_bounds"

VARIABLES
    \* Population, with boolean genomes and FlipBit as the bound Mutator
    individuals,        \* Population.individuals
    pop_fitnesses,      \* Population.fitnesses
    mutator_indpb,      \* Population.mutator: FlipBit.indpb
    pop_op,             \* the last batch operation: "none" | "mutate" | "select"
    pop_pre,            \* history: <<individuals, fitnesses>> at its entry
    pop_indpb,          \* history: <<indpb>> given to mutate_with_chance
    pop_us,             \* history: the uniform draw made for each genome
    pop_invoked,        \* history: whether mutator.mutate ran on each genome
    pop_n,              \* history: the n given to select
    pop_selected,       \* the indices select returned
    pop_outcome         \* "none" | "ok" | "panic_not_implemented"

cx_vars == <<ind1, ind2, orig1, orig2, cx_pre, cx_point, cx_outcome>>

sel_vars == <<fitnesses, tournament_size, sel_drawn, sel_result, sel_outcome,
              seln_n, seln_selected, seln_outcome>>

sh_vars == <<sh_genome, sh_indpb, sh_build, sh_pre, sh_idx, sh_event, sh_outcome>>

pop_vars == <<individuals, pop_fitnesses, mutator_indpb, pop_op, pop_pre,
              pop_indpb, pop_us, pop_invoked, pop_n, pop_selected, pop_outcome>>

vars == <<cx_vars, sel_vars, sh_vars, pop_vars>>

-----------------------------------------------------------------------------
\* Bounds of the model
MaxGene == 2        \* genes are 1..MaxGene
MaxLen == 3         \* genomes have 0..MaxLen elements

Genes == 1..MaxGene

SeqsUpTo(S, n) == UNION {[1..k -> S] : k \in 0..n}

Genomes == SeqsUpTo(Genes, MaxLen)

\* The individuals of the documented example: vec![1; 4] and vec![2; 7]
ExampleInd1 == [i \in 1..4 |-> 1]
ExampleInd2 == [i \in 1..7 |-> 2]

Min(a, b) == IF a < b THEN a ELSE b

\* rng.gen_range(lo..hi): the values that can be drawn; an empty range panics
GenRange(lo, hi) == lo..(hi - 1)

-----------------------------------------------------------------------------
\* crossover::one_point

\* A one-way copy instead of an exchange
SwapAt_copy(a, b, i) == <<[a EXCEPT ![i + 1] = b[i + 1]], b>>

\* std::mem::swap(&mut ind1[i], &mut ind2[i])
SwapAt(a, b, i) ==
    <<[a EXCEPT ![i + 1] = b[i + 1]], [b EXCEPT ![i + 1] = a[i + 1]]>>

\* for i in crossover_point..length { swap }
RECURSIVE SwapLoop(_, _, _, _)
SwapLoop(a, b, i, length) ==
    IF i >= length THEN <<a, b>>
    ELSE LET s == SwapAt(a, b, i) IN SwapLoop(s[1], s[2], i + 1, length)

\* The precondition checked with `length > 0`
CrossoverAssert_weak(length) == length > 0

\* assert!(length > 1, ...)
CrossoverAssert(length) == length > 1

\* The range started at 0
CrossoverPoints_from0(length) == GenRange(0, length)

\* rng.gen_range(1..length)
CrossoverPoints(length) == GenRange(1, length)

one_point ==
    LET length == Min(Len(ind1), Len(ind2)) IN
    /\ cx_pre' = <<ind1, ind2>>
    /\ UNCHANGED <<orig1, orig2, sel_vars, sh_vars, pop_vars>>
    /\ IF ~CrossoverAssert(length)
       THEN /\ cx_outcome' = "panic_too_short"
            /\ cx_point' = <<>>
            /\ UNCHANGED <<ind1, ind2>>
       ELSE IF CrossoverPoints(length) = {}
       THEN /\ cx_outcome' = "panic_empty_range"
            /\ cx_point' = <<>>
            /\ UNCHANGED <<ind1, ind2>>
       ELSE \E crossover_point \in CrossoverPoints(length) :
            LET r == SwapLoop(ind1, ind2, crossover_point, length) IN
            /\ cx_point' = <<crossover_point>>
            /\ ind1' = r[1]
            /\ ind2' = r[2]
            /\ cx_outcome' = "ok"

InitCrossover ==
    /\ \/ /\ ind1 \in Genomes
          /\ ind2 \in Genomes
       \/ /\ ind1 = ExampleInd1
          /\ ind2 = ExampleInd2
    /\ orig1 = ind1
    /\ orig2 = ind2
    /\ cx_pre = <<ind1, ind2>>
    /\ cx_point = <<>>
    /\ cx_outcome = "none"

IdleCrossover ==
    /\ ind1 = <<>>
    /\ ind2 = <<>>
    /\ orig1 = <<>>
    /\ orig2 = <<>>
    /\ cx_pre = <<<<>>, <<>>>>
    /\ cx_point = <<>>
    /\ cx_outcome = "none"

NextCrossover == one_point

-----------------------------------------------------------------------------
\* Properties of one_point

Count(s, v) == Cardinality({i \in DOMAIN s : s[i] = v})

\* C1: after any sequence of one_point calls every individual still has its
\* original length, and each value occurs over both individuals together
\* exactly as often as it did originally (nothing lost, nothing duplicated).
CrossoverConserves ==
    /\ Len(ind1) = Len(orig1)
    /\ Len(ind2) = Len(orig2)
    /\ \A v \in Genes :
         Count(ind1, v) + Count(ind2, v) = Count(orig1, v) + Count(orig2, v)

\* Two calls have succeeded at least once on individuals of unequal length
\* and the genes have actually moved.
CrossoverConservesWitness ==
    /\ cx_outcome = "ok"
    /\ Len(orig1) # Len(orig2)
    /\ ind1 # orig1
    /\ cx_pre[1] # orig1

\* C2: a successful call on a, b with min_len >= 2 draws p in [1, min_len),
\* exchanges a[i] and b[i] for every i in [p, min_len), and leaves every
\* other element alone; the documented example with p = 2 gives
\* [1,1,2,2] and [2,2,1,1,2,2,2].
CrossoverExact ==
    LET a == cx_pre[1]
        b == cx_pre[2]
        min_len == Min(Len(a), Len(b))
    IN  (cx_outcome # "none" /\ min_len >= 2) =>
          /\ cx_outcome = "ok"
          /\ Len(cx_point) = 1
          /\ LET p == cx_point[1] IN
             /\ p >= 1
             /\ p < min_len
             /\ Len(ind1) = Len(a)
             /\ Len(ind2) = Len(b)
             /\ \A i \in 0..(Len(a) - 1) :
                  ind1[i + 1] = IF i >= p /\ i < min_len THEN b[i + 1] ELSE a[i + 1]
             /\ \A i \in 0..(Len(b) - 1) :
                  ind2[i + 1] = IF i >= p /\ i < min_len THEN a[i + 1] ELSE b[i + 1]
             /\ (a = ExampleInd1 /\ b = ExampleInd2 /\ p = 2) =>
                  /\ ind1 = <<1, 1, 2, 2>>
                  /\ ind2 = <<2, 2, 1, 1, 2, 2, 2>>

\* The documented example has been run with crossover point 2.
CrossoverExactWitness ==
    /\ cx_outcome = "ok"
    /\ cx_pre = <<ExampleInd1, ExampleInd2>>
    /\ cx_point = <<2>>
    /\ ind1 = <<1, 1, 2, 2>>

\* C3: a call on individuals whose shorter length is below 2 fails with the
\* too-short condition, draws no crossover point and changes no element.
CrossoverTooShort ==
    (cx_outcome # "none" /\ Min(Len(cx_pre[1]), Len(cx_pre[2])) < 2) =>
        /\ cx_outcome = "panic_too_short"
        /\ cx_point = <<>>
        /\ ind1 = cx_pre[1]
        /\ ind2 = cx_pre[2]

\* A call has failed on a pair whose shorter individual has one element.
CrossoverTooShortWitness ==
    /\ cx_outcome = "panic_too_short"
    /\ Min(Len(cx_pre[1]), Len(cx_pre[2])) = 1
    /\ Len(cx_pre[1]) # Len(cx_pre[2])

-----------------------------------------------------------------------------
\* TournamentSelection::select

MaxFit == 1         \* ordered fitness values are 0..MaxFit
MaxFitLen == 2      \* fitness vectors have 0..MaxFitLen elements
MaxTournament == 3  \* tournament_size is 0..MaxTournament
MaxN == 1           \* select_n is called with n in 0..MaxN

\* The f64 value that compares with nothing, itself included
NaN == -1

FitValues == (0..MaxFit) \cup {NaN}

\* NaN treated as equal to everything: partial_cmp(..).unwrap_or(Equal)
PartialCmp_coerce(x, y) ==
    IF x = NaN \/ y = NaN THEN "Equal"
    ELSE IF x < y THEN "Less" ELSE IF x = y THEN "Equal" ELSE "Greater"

\* f64::partial_cmp
PartialCmp(x, y) ==
    IF x = NaN \/ y = NaN THEN "None"
    ELSE IF x < y THEN "Less" ELSE IF x = y THEN "Equal" ELSE "Greater"

\* The fold keeping the smaller of the two (min_by)
MaxByKeep_min(ord, x, y) == IF ord = "Less" THEN x ELSE y

\* Iterator::max_by's fold step: match compare(&x, &y) { Greater => x, _ => y }
MaxByKeep(ord, x, y) == IF ord = "Greater" THEN x ELSE y

\* options.max_by(|&a, &b| fitnesses[a].partial_cmp(&fitnesses[b]).expect(..))
\* over the lazily drawn options draws[k..]; acc is the maximum so far.
\* The draw after a failed comparison is never made.
RECURSIVE MaxBy(_, _, _, _)
MaxBy(fit, draws, k, acc) ==
    IF k > Len(draws)
    THEN [outcome |-> "ok", drawn |-> draws, result |-> <<acc>>]
    ELSE LET ord == PartialCmp(fit[acc + 1], fit[draws[k] + 1]) IN
         IF ord = "None"
         THEN [outcome |-> "panic_nan", drawn |-> SubSeq(draws, 1, k),
               result |-> <<>>]
         ELSE MaxBy(fit, draws, k + 1, MaxByKeep(ord, acc, draws[k]))

\* No check of the vector's length
SelectAssert_none(len) == TRUE

\* assert!(len > 0, "Can't select from empty fitnesses vector")
SelectAssert(len) == len > 0

\* Every way one call of select on fit with tournament size ts can end
SelectOutcomes(fit, ts) ==
    LET len == Len(fit) IN
    IF ~SelectAssert(len)
    THEN {[outcome |-> "panic_empty", drawn |-> <<>>, result |-> <<>>]}
    ELSE IF ts = 0
    THEN {[outcome |-> "panic_size0", drawn |-> <<>>, result |-> <<>>]}
    ELSE IF GenRange(0, len) = {}
    THEN {[outcome |-> "panic_empty_range", drawn |-> <<>>, result |-> <<>>]}
    ELSE {MaxBy(fit, draws, 2, draws[1]) : draws \in [1..ts -> GenRange(0, len)]}

select ==
    /\ seln_outcome # "running"
    /\ \E r \in SelectOutcomes(fitnesses, tournament_size) :
         /\ sel_outcome' = r.outcome
         /\ sel_drawn' = r.drawn
         /\ sel_result' = r.result
    /\ UNCHANGED <<fitnesses, tournament_size, seln_n, seln_selected, seln_outcome>>
    /\ UNCHANGED <<cx_vars, sh_vars, pop_vars>>

\* SelectMany::select_n: let mut selected = Vec::with_capacity(n)
select_n_call ==
    /\ seln_outcome # "running"
    /\ \E n \in 0..MaxN : seln_n' = n
    /\ seln_selected' = <<>>
    /\ seln_outcome' = "running"
    /\ UNCHANGED <<fitnesses, tournament_size, sel_drawn, sel_result, sel_outcome>>
    /\ UNCHANGED <<cx_vars, sh_vars, pop_vars>>

\* for _ in 0..n { selected.push(self.select(fitnesses)) }
select_n_push ==
    /\ seln_outcome = "running"
    /\ Len(seln_selected) < seln_n
    /\ \E r \in SelectOutcomes(fitnesses, tournament_size) :
         /\ sel_outcome' = r.outcome
         /\ sel_drawn' = r.drawn
         /\ sel_result' = r.result
         /\ IF r.outcome = "ok"
            THEN /\ seln_selected' = Append(seln_selected, r.result[1])
                 /\ seln_outcome' = "running"
            ELSE /\ seln_selected' = seln_selected
                 /\ seln_outcome' = r.outcome
    /\ UNCHANGED <<fitnesses, tournament_size, seln_n>>
    /\ UNCHANGED <<cx_vars, sh_vars, pop_vars>>

\* selected
select_n_return ==
    /\ seln_outcome = "running"
    /\ Len(seln_selected) >= seln_n
    /\ seln_outcome' = "ok"
    /\ UNCHANGED <<fitnesses, tournament_size, seln_n, seln_selected,
                   sel_drawn, sel_result, sel_outcome>>
    /\ UNCHANGED <<cx_vars, sh_vars, pop_vars>>

InitSelection ==
    /\ fitnesses \in SeqsUpTo(FitValues, MaxFitLen)
    /\ tournament_size \in 0..MaxTournament
    /\ sel_drawn = <<>>
    /\ sel_result = <<>>
    /\ sel_outcome = "none"
    /\ seln_n = 0
    /\ seln_selected = <<>>
    /\ seln_outcome = "none"

IdleSelection ==
    /\ fitnesses = <<>>
    /\ tournament_size = 0
    /\ sel_drawn = <<>>
    /\ sel_result = <<>>
    /\ sel_outcome = "none"
    /\ seln_n = 0
    /\ seln_selected = <<>>
    /\ seln_outcome = "none"

NextSelection == select \/ select_n_call \/ select_n_push \/ select_n_return

-----------------------------------------------------------------------------
\* Properties of select

Range(s) == {s[i] : i \in DOMAIN s}

Comparable(fit) == \A i \in DOMAIN fit : fit[i] # NaN

\* C4: on a non-empty vector of mutually comparable fitnesses and with
\* tournament_size >= 1, select returns one of the tournament_size indices it
\* drew from [0, len), and no drawn index has a greater fitness; so with
\* tournament_size = 1 it returns the one index drawn, and on a vector of
\* length 1 it returns 0.
TournamentReturnsMax ==
    (sel_outcome # "none" /\ Len(fitnesses) > 0 /\ Comparable(fitnesses)
        /\ tournament_size >= 1) =>
        /\ sel_outcome = "ok"
        /\ Len(sel_result) = 1
        /\ Len(sel_drawn) = tournament_size
        /\ Range(sel_drawn) \subseteq 0..(Len(fitnesses) - 1)
        /\ sel_result[1] \in Range(sel_drawn)
        /\ \A d \in Range(sel_drawn) :
             fitnesses[sel_result[1] + 1] >= fitnesses[d + 1]
        /\ tournament_size = 1 => sel_result[1] = sel_drawn[1]
        /\ Len(fitnesses) = 1 => sel_result[1] = 0

\* A tournament of three draws over two distinct fitnesses was won by the
\* index drawn first.
TournamentReturnsMaxWitness ==
    /\ sel_outcome = "ok"
    /\ Comparable(fitnesses)
    /\ Len(sel_drawn) = 3
    /\ Cardinality({fitnesses[d + 1] : d \in Range(sel_drawn)}) = 2
    /\ sel_result[1] = sel_drawn[1]
    /\ sel_drawn[2] # sel_drawn[1]
    /\ sel_drawn[3] # sel_drawn[1]

\* C5: select on an empty fitness vector fails with the empty-pool condition
\* for every tournament size, 0 included, and draws and returns no index.
EmptyPoolFails ==
    (sel_outcome # "none" /\ Len(fitnesses) = 0) =>
        /\ sel_outcome = "panic_empty"
        /\ sel_drawn = <<>>
        /\ sel_result = <<>>

\* select has failed on an empty vector with tournament_size = 0.
EmptyPoolFailsWitness ==
    /\ sel_outcome = "panic_empty"
    /\ Len(fitnesses) = 0
    /\ tournament_size = 0

\* A NaN fitness is at one of the indices the last select drew
NaNDrawn == \E d \in Range(sel_drawn) : fitnesses[d + 1] = NaN

\* C6 as stated: whenever a NaN fitness is at a drawn index, for every
\* tournament_size >= 1, select fails with the comparison condition and
\* returns no index.
NaNAlwaysFails ==
    (sel_outcome # "none" /\ tournament_size >= 1 /\ NaNDrawn) =>
        /\ sel_outcome = "panic_nan"
        /\ sel_result = <<>>

\* C6 amended: whenever a NaN fitness is at a drawn index and
\* tournament_size >= 2, select fails with the comparison condition and
\* returns no index; with tournament_size = 1 nothing is compared and the
\* drawn index is returned.
NaNFailsWhenCompared ==
    /\ (sel_outcome # "none" /\ tournament_size >= 2 /\ NaNDrawn) =>
          /\ sel_outcome = "panic_nan"
          /\ sel_result = <<>>
    /\ (sel_outcome # "none" /\ tournament_size = 1 /\ NaNDrawn) =>
          /\ sel_outcome = "ok"
          /\ sel_result = sel_drawn

\* A tournament of size 3 failed on a NaN drawn last, after two ordered draws.
NaNFailsWhenComparedWitness ==
    /\ sel_outcome = "panic_nan"
    /\ tournament_size = 3
    /\ Len(sel_drawn) = 3
    /\ fitnesses[sel_drawn[1] + 1] # NaN
    /\ fitnesses[sel_drawn[2] + 1] # NaN
    /\ fitnesses[sel_drawn[3] + 1] = NaN

-----------------------------------------------------------------------------
\* Probabilities and uniform draws, in units of 1/Resolution

Resolution == 2     \* a draw from [0, 1) is one of 0/R, 1/R, .., (R-1)/R

\* rng.gen::<f64>() and rand::random::<f64>(): a value of [0, 1)
Uniform == 0..(Resolution - 1)

\* A probability parameter: a value of [0, 1], Resolution standing for 1.0
Probs == 0..Resolution

-----------------------------------------------------------------------------
\* Shuffle::mutate

MaxSize == 4        \* shuffled genomes have 0..MaxSize elements
UsizeBits == 3      \* usize, 64 bits wide on the usual targets, is modelled
                    \* UsizeBits wide

UsizeModulus == 2 ^ UsizeBits

\* `size - 2` on usize: <<>> when the subtraction panics (overflow checks
\* on), the wrapped value when the checks are off
SizeMinus2(size) ==
    IF size >= 2 THEN <<size - 2>>
    ELSE IF sh_build = "debug" THEN <<>>
    ELSE <<(size - 2) + UsizeModulus>>

\* The partner moved up only when strictly above idx
Bump_gt(swap_idx, idx) == IF swap_idx > idx THEN swap_idx + 1 ELSE swap_idx

\* if swap_idx >= idx { swap_idx += 1 }
Bump(swap_idx, idx) == IF swap_idx >= idx THEN swap_idx + 1 ELSE swap_idx

\* The values swap_idx can have at genome.swap(idx, swap_idx), for a genome of
\* `size` elements on which size - 2 does not panic
SwapPartners(size, idx) ==
    {Bump(d, idx) : d \in GenRange(0, SizeMinus2(size)[1])}

\* genome.swap(i, j), both in bounds
SwapIn(g, i, j) == [g EXCEPT ![i + 1] = g[j + 1], ![j + 1] = g[i + 1]]

\* mutator.mutate(&mut genome): let size = genome.len()
Shuffle_mutate ==
    /\ sh_outcome # "running"
    /\ sh_pre' = sh_genome
    /\ sh_idx' = 0
    /\ sh_event' = <<>>
    /\ sh_outcome' = "running"
    /\ UNCHANGED <<sh_genome, sh_indpb, sh_build>>
    /\ UNCHANGED <<cx_vars, sel_vars, pop_vars>>

\* One iteration of `for idx in 0..size`
Shuffle_iter ==
    LET size == Len(sh_genome) IN
    /\ sh_outcome = "running"
    /\ sh_idx < size
    /\ \E u \in Uniform :
         IF ~(u < sh_indpb)
         THEN /\ sh_event' = <<>>
              /\ sh_idx' = sh_idx + 1
              /\ UNCHANGED <<sh_genome, sh_outcome>>
         ELSE IF SizeMinus2(size) = <<>>
         THEN /\ sh_event' = <<sh_idx>>
              /\ sh_outcome' = "panic_overflow"
              /\ UNCHANGED <<sh_genome, sh_idx>>
         ELSE IF GenRange(0, SizeMinus2(size)[1]) = {}
         THEN /\ sh_event' = <<sh_idx>>
              /\ sh_outcome' = "panic_empty_range"
              /\ UNCHANGED <<sh_genome, sh_idx>>
         ELSE \E swap_idx \in SwapPartners(size, sh_idx) :
              /\ sh_event' = <<sh_idx, swap_idx>>
              /\ IF swap_idx >= size
                 THEN /\ sh_outcome' = "panic_out_of_bounds"
                      /\ UNCHANGED <<sh_genome, sh_idx>>
                 ELSE /\ sh_genome' = SwapIn(sh_genome, sh_idx, swap_idx)
                      /\ sh_idx' = sh_idx + 1
                      /\ UNCHANGED sh_outcome
    /\ UNCHANGED <<sh_indpb, sh_build, sh_pre>>
    /\ UNCHANGED <<cx_vars, sel_vars, pop_vars>>

\* The loop is over and mutate returns
Shuffle_return ==
    /\ sh_outcome = "running"
    /\ sh_idx >= Len(sh_genome)
    /\ sh_outcome' = "ok"
    /\ UNCHANGED <<sh_genome, sh_indpb, sh_build, sh_pre, sh_idx, sh_event>>
    /\ UNCHANGED <<cx_vars, sel_vars, pop_vars>>

InitShuffle ==
    /\ sh_genome \in SeqsUpTo(Genes, MaxSize)
    /\ sh_indpb \in Probs
    /\ sh_build \in {"debug", "release"}
    /\ sh_pre = sh_genome
    /\ sh_idx = 0
    /\ sh_event = <<>>
    /\ sh_outcome = "none"

IdleShuffle ==
    /\ sh_genome = <<>>
    /\ sh_indpb = 0
    /\ sh_build = "debug"
    /\ sh_pre = <<>>
    /\ sh_idx = 0
    /\ sh_event = <<>>
    /\ sh_outcome = "none"

NextShuffle == Shuffle_mutate \/ Shuffle_iter \/ Shuffle_return

-----------------------------------------------------------------------------
\* Properties of Shuffle::mutate

ShufflePanics == {"panic_overflow", "panic_empty_range", "panic_out_of_bounds"}

\* C9: whenever Shuffle computes a swap partner for an index i, the partner
\* is different from i.
ShuffleNeverSelf ==
    Len(sh_event) = 2 => sh_event[2] # sh_event[1]

\* A swap event fired at index 1 of a genome of four and index 0, below it,
\* became its partner: the genome was changed by the swap.
ShuffleNeverSelfWitness ==
    /\ Len(sh_event) = 2
    /\ Len(sh_genome) = 4
    /\ sh_event[1] = 1
    /\ sh_event[2] = 0
    /\ sh_genome # sh_pre

\* C10 as stated: on a genome of size >= 2, at every index i where the swap
\* event fires, mutate does not fail, the partner is inside [0, size), every
\* index other than i (size-1 included) is a possible partner, and the genome
\* stays a permutation of what it was.
ShuffleAnyOtherIndex ==
    LET size == Len(sh_pre) IN
    (size >= 2 /\ Len(sh_event) >= 1) =>
        /\ sh_outcome \notin ShufflePanics
        /\ Len(sh_event) = 2
        /\ sh_event[2] \in 0..(size - 1)
        /\ SwapPartners(size, sh_event[1]) = (0..(size - 1)) \ {sh_event[1]}
        /\ Len(sh_genome) = size
        /\ \A v \in Genes : Count(sh_genome, v) = Count(sh_pre, v)

-----------------------------------------------------------------------------
\* Population

MaxPop == 2         \* a population has 0..MaxPop genomes
MaxBits == 2        \* a boolean genome has 0..MaxBits elements

\* FlipBit::mutate given the draw made for each element:
\* if rng.gen::<f64>() < self.indpb { genome[i] = !genome[i] }
FlipBit_mutate(genome, draws, indpb) ==
    [i \in DOMAIN genome |-> IF draws[i] < indpb THEN ~genome[i] ELSE genome[i]]

\* if rand::random::<f64>() > indpb
MutateGate(u, indpb) == u > indpb

\* Population::mutate_with_chance(indpb): for each genome in order, one
\* uniform draw, and the bound mutator's mutate when the gate passes
mutate_with_chance ==
    LET N == Len(individuals) IN
    /\ \E indpb \in Probs, us \in [1..N -> Uniform],
          inner \in [1..N -> [1..MaxBits -> Uniform]] :
         /\ pop_indpb' = <<indpb>>
         /\ pop_us' = us
         /\ pop_invoked' = [i \in 1..N |-> MutateGate(us[i], indpb)]
         /\ individuals' =
              [i \in 1..N |->
                 IF MutateGate(us[i], indpb)
                 THEN FlipBit_mutate(individuals[i], inner[i], mutator_indpb)
                 ELSE individuals[i]]
    /\ pop_op' = "mutate"
    /\ pop_pre' = <<individuals, pop_fitnesses>>
    /\ pop_outcome' = "ok"
    /\ UNCHANGED <<pop_fitnesses, mutator_indpb, pop_n, pop_selected>>
    /\ UNCHANGED <<cx_vars, sel_vars, sh_vars>>

\* Population::select(n): the body is todo!(), which panics
Population_select ==
    /\ \E n \in 0..MaxN : pop_n' = n
    /\ pop_op' = "select"
    /\ pop_pre' = <<individuals, pop_fitnesses>>
    /\ pop_selected' = <<>>
    /\ pop_outcome' = "panic_not_implemented"
    /\ UNCHANGED <<individuals, pop_fitnesses, mutator_indpb, pop_indpb,
                   pop_us, pop_invoked>>
    /\ UNCHANGED <<cx_vars, sel_vars, sh_vars>>

InitPopulation ==
    /\ individuals \in SeqsUpTo(SeqsUpTo(BOOLEAN, MaxBits), MaxPop)
    /\ pop_fitnesses \in [1..Len(individuals) -> 0..MaxFit]
    /\ mutator_indpb \in Probs
    /\ pop_op = "none"
    /\ pop_pre = <<individuals, pop_fitnesses>>
    /\ pop_indpb = <<>>
    /\ pop_us = <<>>
    /\ pop_invoked = <<>>
    /\ pop_n = 0
    /\ pop_selected = <<>>
    /\ pop_outcome = "none"

IdlePopulation ==
    /\ individuals = <<>>
    /\ pop_fitnesses = <<>>
    /\ mutator_indpb = 0
    /\ pop_op = "none"
    /\ pop_pre = <<<<>>, <<>>>>
    /\ pop_indpb = <<>>
    /\ pop_us = <<>>
    /\ pop_invoked = <<>>
    /\ pop_n = 0
    /\ pop_selected = <<>>
    /\ pop_outcome = "none"

NextPopulation == mutate_with_chance \/ Population_select

-----------------------------------------------------------------------------
\* Properties of Population

\* C7 as stated: mutate_with_chance(indpb) runs the bound Mutator on a genome
\* exactly when the draw u made for it satisfies u < indpb; with indpb = 0 it
\* runs on no genome and the population is unchanged, with indpb = 1 it runs
\* on every genome; the number of genomes and the fitnesses never change.
MutatesWithProbabilityIndpb ==
    pop_op = "mutate" =>
        LET indpb == pop_indpb[1] IN
        /\ DOMAIN pop_invoked = DOMAIN individuals
        /\ \A i \in DOMAIN pop_invoked : pop_invoked[i] <=> (pop_us[i] < indpb)
        /\ indpb = 0 => (individuals = pop_pre[1]
                           /\ \A i \in DOMAIN pop_invoked : ~pop_invoked[i])
        /\ indpb = Resolution => \A i \in DOMAIN pop_invoked : pop_invoked[i]
        /\ Len(individuals) = Len(pop_pre[1])
        /\ \A i \in DOMAIN individuals : Len(individuals[i]) = Len(pop_pre[1][i])
        /\ pop_fitnesses = pop_pre[2]

\* C8 as stated: select(n) on a population with at least one fitness value
\* returns normally a sequence of exactly n indices, each in
\* [0, number of fitnesses), and leaves genomes and fitnesses unchanged.
PopulationSelectDelegates ==
    (pop_op = "select" /\ Len(pop_pre[2]) >= 1) =>
        /\ pop_outcome = "ok"
        /\ Len(pop_selected) = pop_n
        /\ \A k \in DOMAIN pop_selected :
             pop_selected[k] \in 0..(Len(pop_fitnesses) - 1)
        /\ individuals = pop_pre[1]
        /\ pop_fitnesses = pop_pre[2]

-----------------------------------------------------------------------------
\* Specifications

InitCrossoverOnly ==
    InitCrossover /\ IdleSelection /\ IdleShuffle /\ IdlePopulation

InitSelectionOnly ==
    IdleCrossover /\ InitSelection /\ IdleShuffle /\ IdlePopulation

InitShuffleOnly ==
    IdleCrossover /\ IdleSelection /\ InitShuffle /\ IdlePopulation

InitPopulationOnly ==
    IdleCrossover /\ IdleSelection /\ IdleShuffle /\ InitPopulation

\* Calls of crossover::one_point on a pair of individuals
SpecCrossover == InitCrossoverOnly /\ [][NextCrossover]_vars

\* Calls of TournamentSelection::select and of select_n on a fitness vector
SpecSelection == InitSelectionOnly /\ [][NextSelection]_vars

\* Calls of Shuffle::mutate on a genome
SpecShuffle == InitShuffleOnly /\ [][NextShuffle]_vars

\* Batch operations of a Population
SpecPopulation == InitPopulationOnly /\ [][NextPopulation]_vars

=============================================================================
